---- MODULE Spec2Model ----
(***************************************************************************)
(* A model of GiteaProvider (pr_agent/git_providers/gitea_provider.py):    *)
(* get_diff_files, which rebuilds the base content of each changed file by *)
(* reverse-applying the pull request's patch to the head content, and      *)
(* publish_code_suggestions, which turns suggestions into inline comments. *)
(*                                                                         *)
(* Text is a sequence of one-character strings, a line is a text, a list   *)
(* of lines is a sequence of texts.                                        *)
(***************************************************************************)
EXTENDS Integers, Sequences, FiniteSets, TLC

VARIABLES
    pc,               \* where the running operation is
    script,           \* the edit from which the patch of the file under study was made
    patch_set,        \* PatchSet(patch.splitlines()): the parsed FileDiffs
    files,            \* the change metadata, GET pulls/{id}/files
    file_index,       \* position of the loop over files
    file_patches,     \* the FilePatchInfo records built so far
    head_file_lines,  \* head_file.splitlines(keepends=True)
    base_file_lines,  \* the working copy
    todo,             \* hunk lines still to be processed, in processing order
    base_file,        \* "".join(base_file_lines)
    code_suggestions, \* the argument of publish_code_suggestions
    suggestion_index, \* position of the loop over code_suggestions
    inline_comments,  \* the inline-comment descriptors built so far
    posted,           \* the comments of the review POSTed, if any
    exc               \* the exception raised or logged, "None" if none

vars == <<pc, script, patch_set, files, file_index, file_patches,
          head_file_lines, base_file_lines, todo, base_file,
          code_suggestions, suggestion_index, inline_comments, posted, exc>>

(***************************************************************************)
(* Bounds of the model.                                                    *)
(***************************************************************************)
MaxScript == 3
MaxDiffs == 2
MaxCount == 9
MaxSuggestions == 2

(***************************************************************************)
(* Sequences, and Python's list and str operations.                        *)
(***************************************************************************)
BoundedSeq(S, n) == UNION {[1..k -> S] : k \in 0..n}

RECURSIVE Join(_)
\* "".join(lines)
Join(lines) == IF lines = <<>> THEN <<>> ELSE Head(lines) \o Join(Tail(lines))

Reversed(s) == [k \in 1..Len(s) |-> s[Len(s) + 1 - k]]

RECURSIVE SplitFrom(_, _)
\* str.splitlines(keepends=True): every line keeps its terminator; a last
\* piece without terminator is a line too.  cur is the line being read.
SplitFrom(text, cur) ==
    IF text = <<>> THEN (IF cur = <<>> THEN <<>> ELSE <<cur>>)
    ELSE IF Head(text) = "\n" THEN <<Append(cur, "\n")>> \o SplitFrom(Tail(text), <<>>)
    ELSE SplitFrom(Tail(text), Append(cur, Head(text)))

SplitLinesKeepEnds(text) == SplitFrom(text, <<>>)

\* str.splitlines() without keepends, for one line: the terminator is dropped.
StripTerminator(line) == SelectSeq(line, LAMBDA c : c # "\n")

\* Python's normalisation of a list index for insert: negative counts from the
\* end, and the result is clamped into 0..len.
ClampIndex(idx, len) ==
    LET j == IF idx < 0 THEN idx + len ELSE idx
    IN  IF j < 0 THEN 0 ELSE IF j > len THEN len ELSE j

\* list.insert(idx, v), idx zero-based: never raises.
ListInsert(lines, idx, v) ==
    LET j == ClampIndex(idx, Len(lines))
    IN  SubSeq(lines, 1, j) \o <<v>> \o SubSeq(lines, j + 1, Len(lines))

\* list.pop(idx) raises IndexError unless -len <= idx < len.
PopRaises(lines, idx) == idx >= Len(lines) \/ idx < 0 - Len(lines)

ListPop(lines, idx) ==
    LET j == IF idx < 0 THEN idx + Len(lines) ELSE idx
    IN  SubSeq(lines, 1, j) \o SubSeq(lines, j + 2, Len(lines))

(***************************************************************************)
(* The patch of one file.  An edit script walks the base file top to       *)
(* bottom: " " keeps a line and shows it as context, "skip" keeps a line   *)
(* outside every hunk, "-" removes a base line, "+" adds a head line.      *)
(***************************************************************************)
LineSet == {<<"a", "\n">>, <<"b", "\n">>}
Kinds == {" ", "+", "-", "skip"}
Ops == [kind : Kinds, value : LineSet]
Scripts == BoundedSeq(Ops, MaxScript)

InBase(op) == op.kind \in {" ", "-", "skip"}
InHead(op) == op.kind \in {" ", "+", "skip"}
Values(ops) == [k \in 1..Len(ops) |-> ops[k].value]
BaseOf(sc) == Values(SelectSeq(sc, InBase))
HeadOf(sc) == Values(SelectSeq(sc, InHead))

\* The Line objects unidiff builds from patch.splitlines(): the value has lost
\* its terminator; source_line_no is None (0 here) on an added line and
\* target_line_no is None (0) on a removed one.
ParsedLine(sc, k) ==
    [line_type      |-> sc[k].kind,
     value          |-> StripTerminator(sc[k].value),
     source_line_no |-> IF sc[k].kind \in {" ", "-"}
                        THEN 1 + Len(SelectSeq(SubSeq(sc, 1, k - 1), InBase)) ELSE 0,
     target_line_no |-> IF sc[k].kind \in {" ", "+"}
                        THEN 1 + Len(SelectSeq(SubSeq(sc, 1, k - 1), InHead)) ELSE 0]

RECURSIVE HunksFrom(_, _, _)
\* The hunks of the script: the maximal runs of lines that are not skipped.
HunksFrom(sc, k, cur) ==
    IF k > Len(sc) THEN (IF cur = <<>> THEN <<>> ELSE <<cur>>)
    ELSE IF sc[k].kind = "skip"
         THEN (IF cur = <<>> THEN <<>> ELSE <<cur>>) \o HunksFrom(sc, k + 1, <<>>)
         ELSE HunksFrom(sc, k + 1, Append(cur, ParsedLine(sc, k)))

ParseHunks(sc) == HunksFrom(sc, 1, <<>>)

RECURSIVE ReversedLines(_)
\* for hunk in reversed(patched_file): for line in reversed(hunk)
ReversedLines(hunks) ==
    IF hunks = <<>> THEN <<>>
    ELSE Reversed(hunks[Len(hunks)]) \o ReversedLines(SubSeq(hunks, 1, Len(hunks) - 1))

(***************************************************************************)
(* One step of the reverse application, lines 135-140.                     *)
(***************************************************************************)
LineRaises(work, line) ==
    line.line_type = "+" /\ PopRaises(work, line.target_line_no - 1)

ApplyLine(work, line) ==
    IF line.line_type = "+" THEN ListPop(work, line.target_line_no - 1)
    ELSE IF line.line_type = "-" THEN ListInsert(work, line.source_line_no - 1, line.value)
    ELSE work

RECURSIVE ApplyAll(_, _)
\* Lines 133-140 for one patched file: the lines in processing order, until
\* one raises.  raised: list.pop raised IndexError.
ApplyAll(work, lines) ==
    IF lines = <<>> THEN [raised |-> FALSE, lines |-> work]
    ELSE IF LineRaises(work, Head(lines)) THEN [raised |-> TRUE, lines |-> work]
    ELSE ApplyAll(ApplyLine(work, Head(lines)), Tail(lines))

ReverseApply(head_lines, hunks) == ApplyAll(head_lines, ReversedLines(hunks))

(***************************************************************************)
(* File names, and what unidiff's PatchedFile gives for them.              *)
(***************************************************************************)
F == <<"f">>
G == <<"g">>
Paths == {F, G}
DEV_NULL == <<"/", "d", "e", "v", "/", "n", "u", "l", "l">>
SourceOf(name) == <<"a", "/">> \o name
TargetOf(name) == <<"b", "/">> \o name

\* Optional values: None, or a value.
None == [is_none |-> TRUE]
Some(v) == [is_none |-> FALSE, value |-> v]

\* PatchedFile.is_rename
IsRename(pf) ==
    /\ pf.source_file # DEV_NULL
    /\ pf.target_file # DEV_NULL
    /\ SubSeq(pf.source_file, 3, Len(pf.source_file))
         # SubSeq(pf.target_file, 3, Len(pf.target_file))

\* PatchedFile.path: the source file, or the target file of an added or a
\* renamed file, without its a/ or b/.
Path(pf) ==
    LET filepath == IF pf.source_file = DEV_NULL
                       \/ (IsRename(pf) /\ pf.target_file # DEV_NULL)
                    THEN pf.target_file ELSE pf.source_file
    IN  IF Len(filepath) >= 2 /\ SubSeq(filepath, 1, 2) \in {<<"a", "/">>, <<"b", "/">>}
        THEN SubSeq(filepath, 3, Len(filepath)) ELSE filepath

(***************************************************************************)
(* get_diff_files, one metadata entry: lines 105-155.                      *)
(***************************************************************************)
EditTypeGe(num_plus, num_minus) ==
    IF num_plus >= 0 /\ num_minus > 0 THEN "MODIFIED"
    ELSE IF num_plus > 0 THEN "ADDED"
    ELSE IF num_minus > 0 THEN "DELETED"
    ELSE "UNKNOWN"

\* Lines 110-117.
EditType(num_plus, num_minus) ==
    IF num_plus > 0 /\ num_minus > 0 THEN "MODIFIED"
    ELSE IF num_plus > 0 THEN "ADDED"
    ELSE IF num_minus > 0 THEN "DELETED"
    ELSE "UNKNOWN"

\* What line 141-142 leave after a patched file that matched.
AfterMatch(pf, lines) ==
    [raised |-> FALSE, base_file |-> Join(lines), base_file_name |-> Some(pf.source_file)]

RECURSIVE MatchLoopFirstWins(_, _, _, _)
MatchLoopFirstWins(ps, filename, head_lines, acc) ==
    IF ps = <<>> THEN acc
    ELSE IF Path(Head(ps)) # filename
         THEN MatchLoopFirstWins(Tail(ps), filename, head_lines, acc)
         ELSE LET r == ReverseApply(head_lines, Head(ps).hunks)
              IN  IF r.raised THEN [acc EXCEPT !.raised = TRUE]
                  ELSE AfterMatch(Head(ps), r.lines)

RECURSIVE MatchLoopNoFilter(_, _, _, _)
MatchLoopNoFilter(ps, filename, head_lines, acc) ==
    IF ps = <<>> THEN acc
    ELSE LET r == ReverseApply(head_lines, Head(ps).hunks)
         IN  IF r.raised THEN [acc EXCEPT !.raised = TRUE]
             ELSE MatchLoopNoFilter(Tail(ps), filename, head_lines,
                                    AfterMatch(Head(ps), r.lines))

RECURSIVE MatchLoop(_, _, _, _)
\* Lines 129-142: for patched_file in patch_set.  acc holds base_file and
\* base_file_name as the files before left them; every match starts again
\* from a copy of head_file_lines.
MatchLoop(ps, filename, head_lines, acc) ==
    IF ps = <<>> THEN acc
    ELSE IF Path(Head(ps)) # filename
         THEN MatchLoop(Tail(ps), filename, head_lines, acc)
         ELSE LET r == ReverseApply(head_lines, Head(ps).hunks)
              IN  IF r.raised THEN [acc EXCEPT !.raised = TRUE]
                  ELSE MatchLoop(Tail(ps), filename, head_lines,
                                 AfterMatch(Head(ps), r.lines))

\* Lines 124-125: base_file_name = None, base_file = "".
NoMatch == [raised |-> FALSE, base_file |-> <<>>, base_file_name |-> None]

\* Lines 144-155.  The patch field, the same raw text in every record, is
\* left out.
FilePatchInfo(file, found) ==
    [base_file       |-> found.base_file,
     head_file       |-> file.raw.text,
     filename        |-> file.filename,
     old_filename    |-> found.base_file_name,
     num_plus_lines  |-> file.additions,
     num_minus_lines |-> file.deletions,
     edit_type       |-> EditType(file.additions, file.deletions)]

\* One turn of the loop of line 104: the exception it raises ("None" if
\* none) and the record it appends.
FileOutcome(file, ps) ==
    IF ~file.raw.ok THEN [exc |-> "HTTPError"]
    ELSE LET found == MatchLoop(ps, file.filename,
                                SplitLinesKeepEnds(file.raw.text), NoMatch)
         IN  IF found.raised THEN [exc |-> "IndexError"]
             ELSE [exc |-> "None", record |-> FilePatchInfo(file, found)]

RECURSIVE FilesLoop(_, _, _)
\* Lines 104-158 as a whole: the exception raised, or the records returned.
FilesLoop(fs, ps, acc) ==
    IF fs = <<>> THEN [exc |-> "None", records |-> acc]
    ELSE LET o == FileOutcome(Head(fs), ps)
         IN  IF o.exc # "None" THEN [exc |-> o.exc]
             ELSE FilesLoop(Tail(fs), ps, Append(acc, o.record))

GetDiffFiles(fs, ps) == FilesLoop(fs, ps, <<>>)

(***************************************************************************)
(* The reverse application of one file's hunks, line by line: the loop of  *)
(* lines 131-141, on the patch made from script and on a head file that    *)
(* is the head of that script or, the patch being stale, only a prefix.    *)
(***************************************************************************)
PatchedFileOf(sc, name) ==
    [source_file |-> SourceOf(name), target_file |-> TargetOf(name),
     hunks |-> ParseHunks(sc)]

InitApply ==
    /\ script \in Scripts
    /\ \E n \in 0..Len(HeadOf(script)) :
           head_file_lines = SplitLinesKeepEnds(Join(SubSeq(HeadOf(script), 1, n)))
    /\ base_file_lines = head_file_lines
    /\ patch_set = <<PatchedFileOf(script, F)>>
    /\ todo = ReversedLines(patch_set[1].hunks)
    /\ base_file = <<>>
    /\ pc = "apply"
    /\ files = <<>>
    /\ file_index = 1
    /\ file_patches = <<>>
    /\ code_suggestions = <<>>
    /\ suggestion_index = 1
    /\ inline_comments = <<>>
    /\ posted = None
    /\ exc = "None"

OutsideApply ==
    UNCHANGED <<script, patch_set, files, file_index, file_patches, head_file_lines,
                code_suggestions, suggestion_index, inline_comments, posted>>

\* Line 136 when list.pop returns.
ApplyAdded ==
    /\ pc = "apply" /\ todo # <<>>
    /\ Head(todo).line_type = "+"
    /\ ~LineRaises(base_file_lines, Head(todo))
    /\ base_file_lines' = ApplyLine(base_file_lines, Head(todo))
    /\ todo' = Tail(todo)
    /\ UNCHANGED <<pc, base_file, exc>>
    /\ OutsideApply

\* Line 136 when list.pop raises: nothing in get_diff_files catches it.
PopIndexError ==
    /\ pc = "apply" /\ todo # <<>>
    /\ LineRaises(base_file_lines, Head(todo))
    /\ pc' = "raised"
    /\ exc' = "IndexError"
    /\ UNCHANGED <<base_file_lines, todo, base_file>>
    /\ OutsideApply

\* Lines 138-140.
ApplyRemoved ==
    /\ pc = "apply" /\ todo # <<>>
    /\ Head(todo).line_type = "-"
    /\ base_file_lines' = ApplyLine(base_file_lines, Head(todo))
    /\ todo' = Tail(todo)
    /\ UNCHANGED <<pc, base_file, exc>>
    /\ OutsideApply

\* A context line: neither branch of lines 135-140.
PassContext ==
    /\ pc = "apply" /\ todo # <<>>
    /\ Head(todo).line_type = " "
    /\ base_file_lines' = ApplyLine(base_file_lines, Head(todo))
    /\ todo' = Tail(todo)
    /\ UNCHANGED <<pc, base_file, exc>>
    /\ OutsideApply

\* Line 141.
JoinBase ==
    /\ pc = "apply" /\ todo = <<>>
    /\ base_file' = Join(base_file_lines)
    /\ pc' = "joined"
    /\ UNCHANGED <<base_file_lines, todo, exc>>
    /\ OutsideApply

NextApply == ApplyAdded \/ PopIndexError \/ ApplyRemoved \/ PassContext \/ JoinBase

SpecApply == InitApply /\ [][NextApply]_vars

\* The head file is the one the patch was made for.
ValidPatch == head_file_lines = HeadOf(script)

\* The lines without their terminators.
Texts(lines) == [k \in 1..Len(lines) |-> StripTerminator(lines[k])]

\* C1: reverse-applying a valid patch to the lines of its head never fails
\* and ends with the working copy equal, line for line, to the base the patch
\* was made from.  The lines are compared by their text, terminators aside:
\* a difference is a line missing, added or out of place.
C1_RoundTrip ==
    ValidPatch =>
        /\ pc # "raised"
        /\ pc = "joined" => Texts(base_file_lines) = Texts(BaseOf(script))

\* A line number beyond the working copy: an added line to pop where there is
\* no element (target_line_no > length), a removed line to insert past the
\* end (source_line_no - 1 > length; source_line_no = length + 1 appends).
BeyondWorkingCopy(line, work) ==
    \/ line.line_type = "-" /\ line.source_line_no - 1 > Len(work)
    \/ line.line_type = "+" /\ line.target_line_no > Len(work)

\* C2: a hunk line whose line number is beyond the working copy ends the
\* reconstruction in an error and is not applied at any position: the
\* working copy is left as it was.
C2_BoundsSafety ==
    [][(pc = "apply" /\ todo # <<>> /\ BeyondWorkingCopy(Head(todo), base_file_lines))
         => (pc' = "raised" /\ base_file_lines' = base_file_lines)]_vars

\* C8: under a valid patch, when an added line with target number t is about
\* to be processed, the working copy holds at index t-1 that very line: the
\* text of the head's line t, which is the line's value.
C8_AddedLineInPlace ==
    (ValidPatch /\ pc = "apply" /\ todo # <<>> /\ Head(todo).line_type = "+") =>
        LET t == Head(todo).target_line_no
        IN  /\ t <= Len(base_file_lines)
            /\ StripTerminator(base_file_lines[t]) = StripTerminator(head_file_lines[t])
            /\ StripTerminator(base_file_lines[t]) = Head(todo).value

(***************************************************************************)
(* get_diff_files as a pass over the metadata list, one entry per step.    *)
(***************************************************************************)
\* Patches to draw the hunks of a FileDiff from: no hunk at all (a rename or
\* a mode change), one added line, one removed line, and one line added as
\* line 3 below two lines outside the hunk.
SampleScripts ==
    {<<>>,
     <<[kind |-> "+", value |-> <<"a", "\n">>]>>,
     <<[kind |-> "-", value |-> <<"b", "\n">>]>>,
     <<[kind |-> "skip", value |-> <<"a", "\n">>],
       [kind |-> "skip", value |-> <<"a", "\n">>],
       [kind |-> "+", value |-> <<"b", "\n">>]>>}

\* f changed, g renamed to f, g added.
FileDiffs ==
    {[source_file |-> h[1], target_file |-> h[2], hunks |-> ParseHunks(sc)] :
        h \in {<<SourceOf(F), TargetOf(F)>>, <<SourceOf(G), TargetOf(F)>>,
               <<DEV_NULL, TargetOf(G)>>},
        sc \in SampleScripts}

HeadTexts == {<<"a", "\n">>, <<"b", "\n", "a", "\n">>}

\* What GET raw_url answers: an error status, or the head text.
RawAnswers ==
    {[ok |-> FALSE, text |-> <<>>]} \cup {[ok |-> TRUE, text |-> t] : t \in HeadTexts}

FileMetas(counts) ==
    [filename : Paths, additions : counts, deletions : counts, raw : RawAnswers]

\* The metadata lists: each changed file once.
FileLists(counts) ==
    {fs \in BoundedSeq(FileMetas(counts), Cardinality(Paths)) :
        \A j, k \in 1..Len(fs) : j # k => fs[j].filename # fs[k].filename}

InitPassWith(fileLists, patchSets) ==
    /\ files \in fileLists
    /\ patch_set \in patchSets
    /\ pc = "start"
    /\ file_index = 0
    /\ file_patches = <<>>
    /\ script = <<>>
    /\ head_file_lines = <<>>
    /\ base_file_lines = <<>>
    /\ todo = <<>>
    /\ base_file = <<>>
    /\ code_suggestions = <<>>
    /\ suggestion_index = 1
    /\ inline_comments = <<>>
    /\ posted = None
    /\ exc = "None"

Init == InitPassWith(FileLists(0..1), BoundedSeq(FileDiffs, MaxDiffs))

OutsidePass ==
    UNCHANGED <<script, patch_set, files, head_file_lines, base_file_lines, todo,
                base_file, code_suggestions, suggestion_index, inline_comments, posted>>

\* Lines 95-103: the patch and the metadata list are fetched; either request
\* may answer an error status, which raise_for_status raises.
FetchPatchAndFiles ==
    /\ pc = "start"
    /\ \E ok \in BOOLEAN :
          IF ok THEN pc' = "files_loop" /\ file_index' = 1 /\ exc' = exc
          ELSE pc' = "raised" /\ file_index' = file_index /\ exc' = "HTTPError"
    /\ UNCHANGED file_patches
    /\ OutsidePass

\* Lines 105-155 for files[file_index].  An exception leaves the function:
\* no record is appended and nothing is returned.
ProcessFile ==
    /\ pc = "files_loop" /\ file_index <= Len(files)
    /\ LET o == FileOutcome(files[file_index], patch_set)
       IN  IF o.exc = "None"
           THEN /\ file_patches' = Append(file_patches, o.record)
                /\ file_index' = file_index + 1
                /\ UNCHANGED <<pc, exc>>
           ELSE /\ pc' = "raised"
                /\ exc' = o.exc
                /\ UNCHANGED <<file_patches, file_index>>
    /\ OutsidePass

\* Lines 157-158.
ReturnFiles ==
    /\ pc = "files_loop" /\ file_index > Len(files)
    /\ pc' = "returned"
    /\ UNCHANGED <<file_index, file_patches, exc>>
    /\ OutsidePass

Next == FetchPatchAndFiles \/ ProcessFile \/ ReturnFiles

Spec == Init /\ [][Next]_vars

\* The pass over one metadata entry with every pair of counts.
InitClassify ==
    InitPassWith({fs \in FileLists(0..MaxCount) : Len(fs) = 1 /\ fs[1].filename = F},
                 {<<>>})

SpecClassify == InitClassify /\ [][Next]_vars

\* The patched files whose path is the entry's filename, in patch order.
Matching(name) == SelectSeq(patch_set, LAMBDA pf : Path(pf) = name)

\* The pass was left by an exception raised while one entry was processed.
RaisedInLoop == pc = "raised" /\ file_index >= 1

\* C3: a failure local to one file never aborts the pass: no exception leaves
\* the loop, and the pass returns one record per metadata entry.
C3_SiblingsSurvive ==
    /\ ~RaisedInLoop
    /\ pc = "returned" =>
          /\ Len(file_patches) = Len(files)
          /\ \A k \in 1..Len(files) : file_patches[k].filename = files[k].filename

Classification(a, d) ==
    CASE a > 0 /\ d > 0 -> "MODIFIED"
      [] a > 0 /\ d = 0 -> "ADDED"
      [] a = 0 /\ d > 0 -> "DELETED"
      [] a = 0 /\ d = 0 -> "UNKNOWN"

\* C6: the edit type of every record is the one its entry's counts call for,
\* and records with the same counts have the same edit type.
C6_Classification ==
    /\ \A k \in 1..Len(file_patches) :
          file_patches[k].edit_type = Classification(files[k].additions, files[k].deletions)
    /\ \A j, k \in 1..Len(file_patches) :
          (/\ file_patches[j].num_plus_lines = file_patches[k].num_plus_lines
           /\ file_patches[j].num_minus_lines = file_patches[k].num_minus_lines)
              => file_patches[j].edit_type = file_patches[k].edit_type

C6_Witness ==
    /\ pc = "returned" /\ Len(file_patches) = 1
    /\ files[1].additions = 0 /\ files[1].deletions = MaxCount
    /\ file_patches[1].edit_type = "DELETED"

\* C9: a record has an old filename only if the patched file it was rebuilt
\* from is a rename.
C9_OldNameOnlyOnRename ==
    \A k \in 1..Len(file_patches) :
        file_patches[k].old_filename # None =>
            LET m == Matching(files[k].filename)
            IN  m # <<>> /\ IsRename(m[Len(m)])

\* C10: the base content and the old filename of a record with matching
\* patched files are those of the last of them, applied to the head lines.
C10_LastMatchAlone ==
    \A k \in 1..Len(file_patches) :
        LET m == Matching(files[k].filename)
        IN  m # <<>> =>
              LET last == m[Len(m)]
                  r == ReverseApply(SplitLinesKeepEnds(file_patches[k].head_file), last.hunks)
              IN  /\ ~r.raised
                  /\ file_patches[k].base_file = Join(r.lines)
                  /\ file_patches[k].old_filename = Some(last.source_file)

\* Two patched files match, and the first alone gives another base content
\* and another old filename than the record has.
C10_Witness ==
    \E k \in 1..Len(file_patches) :
        LET m == Matching(files[k].filename)
        IN  /\ Len(m) >= 2
            /\ LET r == ReverseApply(SplitLinesKeepEnds(file_patches[k].head_file), m[1].hunks)
               IN  /\ ~r.raised
                   /\ Join(r.lines) # file_patches[k].base_file
                   /\ Some(m[1].source_file) # file_patches[k].old_filename

(***************************************************************************)
(* publish_code_suggestions, lines 166-210: one suggestion per step inside *)
(* one try block, then the review is POSTed.                               *)
(***************************************************************************)
\* A file name that holds a newline.
FNewline == <<"f", "\n">>

\* The body of a suggestion, as pieces of text: "fence" is the three
\* backquotes that open a code block, <<"fence", "suggestion">> the opening
\* of a suggestion block.
Bodies == {<<<<"t", "e", "x", "t">>>>, <<<<"fence", "suggestion">>, <<"t", "e", "x", "t">>>>}
Starts == {0, 10}

Suggestions ==
    [body : Bodies, relevant_file : {F, G, FNewline}, relevant_lines_start : Starts]

\* The pull request as the server holds it while suggestions are published.
PublishFileLists ==
    {fs \in BoundedSeq([filename : {F, FNewline}, additions : {1}, deletions : {0},
                        raw : {[ok |-> FALSE, text |-> <<>>],
                               [ok |-> TRUE, text |-> <<"a", "\n">>]}], 2) :
        \A j, k \in 1..Len(fs) : j # k => fs[j].filename # fs[k].filename}

PublishPatchSets ==
    {<<>>} \cup {<<PatchedFileOf(sc, F)>> : sc \in SampleScripts}

InitPublish ==
    /\ code_suggestions \in BoundedSeq(Suggestions, MaxSuggestions)
    /\ files \in PublishFileLists
    /\ patch_set \in PublishPatchSets
    /\ pc = "suggestions_loop"
    /\ suggestion_index = 1
    /\ inline_comments = <<>>
    /\ posted = None
    /\ exc = "None"
    /\ file_index = 0
    /\ file_patches = <<>>
    /\ script = <<>>
    /\ head_file_lines = <<>>
    /\ base_file_lines = <<>>
    /\ todo = <<>>
    /\ base_file = <<>>

\* str.replace("\n", "")
RemoveNewlines(name) == SelectSeq(name, LAMBDA c : c # "\n")

\* Lines 182-184: the opening of a suggestion block becomes the opening of
\* a code block named after the file.
ReplaceFence(body, name) ==
    [k \in 1..Len(body) |->
        IF body[k] = <<"fence", "suggestion">> THEN <<"fence">> \o name
        ELSE body[k]]

TargetLineNoSame(relevant_lines_start) == relevant_lines_start

\* Line 185.
TargetLineNo(relevant_lines_start) == relevant_lines_start + 1

\* Lines 176-181: the first record of that filename, None if there is none.
TargetFile(diff_files, relevant_file) ==
    LET hits == SelectSeq(diff_files, LAMBDA file : file.filename = relevant_file)
    IN  IF hits = <<>> THEN None ELSE Some(hits[1])

\* Lines 186-192.
InlineComment(suggestion, target_file) ==
    [body         |-> ReplaceFence(suggestion.body, RemoveNewlines(target_file.filename)),
     new_position |-> TargetLineNo(suggestion.relevant_lines_start),
     path         |-> RemoveNewlines(target_file.filename)]

OutsidePublish ==
    UNCHANGED <<script, patch_set, files, file_index, file_patches, head_file_lines,
                base_file_lines, todo, base_file, code_suggestions>>

\* Lines 171-192 for code_suggestions[suggestion_index].  get_diff_files runs
\* anew: its requests for the patch and the list may fail, or its loop may
\* raise.  Any exception, and the AttributeError of line 183 when no record
\* has the file name, leaves the loop for the handler of lines 204-207, which
\* logs it; the function then returns.
ProcessSuggestion ==
    /\ pc = "suggestions_loop" /\ suggestion_index <= Len(code_suggestions)
    /\ \E requests_ok \in BOOLEAN :
          LET suggestion == code_suggestions[suggestion_index]
              got == IF requests_ok THEN GetDiffFiles(files, patch_set)
                     ELSE [exc |-> "HTTPError"]
              target_file == IF got.exc = "None"
                             THEN TargetFile(got.records, suggestion.relevant_file)
                             ELSE None
          IN  IF got.exc # "None"
              THEN /\ exc' = got.exc
                   /\ pc' = "returned"
                   /\ UNCHANGED <<suggestion_index, inline_comments>>
              ELSE IF target_file = None
              THEN /\ exc' = "AttributeError"
                   /\ pc' = "returned"
                   /\ UNCHANGED <<suggestion_index, inline_comments>>
              ELSE /\ inline_comments' =
                          Append(inline_comments, InlineComment(suggestion, target_file.value))
                   /\ suggestion_index' = suggestion_index + 1
                   /\ UNCHANGED <<pc, exc>>
    /\ UNCHANGED posted
    /\ OutsidePublish

\* Lines 194-210: the review with all the comments is POSTed, or the request
\* fails and the handler logs it; the function returns.
PostReview ==
    /\ pc = "suggestions_loop" /\ suggestion_index > Len(code_suggestions)
    /\ \E ok \in BOOLEAN :
          IF ok THEN posted' = Some(inline_comments) /\ exc' = exc
          ELSE posted' = posted /\ exc' = "HTTPError"
    /\ pc' = "returned"
    /\ UNCHANGED <<suggestion_index, inline_comments>>
    /\ OutsidePublish

NextPublish == ProcessSuggestion \/ PostReview

SpecPublish == InitPublish /\ [][NextPublish]_vars

\* C4: when publish_code_suggestions returns, every suggestion of the list
\* has been attempted, whatever failed before it.
C4_RemainingAttempted ==
    pc = "returned" => suggestion_index >= Len(code_suggestions)

\* The file names of the metadata list, which are those of the records.
RecordNames == {files[k].filename : k \in 1..Len(files)}

\* What C7 says of the descriptors but for the path: the k-th descriptor is
\* that of the k-th suggestion and anchors it at relevant_lines_start + 1;
\* every suggestion passed has its descriptor; and a suggestion whose file
\* is that of a record never fails for want of a target file.
AnchorsAndEmission ==
    /\ \A k \in 1..Len(inline_comments) :
          /\ code_suggestions[k].relevant_file \in RecordNames
          /\ inline_comments[k].new_position = code_suggestions[k].relevant_lines_start + 1
    /\ Len(inline_comments) = suggestion_index - 1
    /\ exc = "AttributeError" =>
          code_suggestions[suggestion_index].relevant_file \notin RecordNames

====
